---- MODULE Spec2Model ----
(***************************************************************************)
(* WitnessChain location-proof plugin: the pipeline                        *)
(*   signalsFromChallengeResult -> createWitnessChainStamp -> sign ->      *)
(*   verifyWitnessChainStamp / evaluateWitnessChainStamp                   *)
(* as a state machine over the values a caller holds.                      *)
(*                                                                         *)
(* Conventions of the value model                                          *)
(*   - an optional property is a set with at most one element: {} is the   *)
(*     JavaScript undefined (property absent), {v} is the value v;         *)
(*   - a dynamically typed flag is one of the tags "true", "false",        *)
(*     "undefined", "str" (a value that is not a boolean);                 *)
(*   - a JavaScript number that takes part in the scoring arithmetic is a  *)
(*     record [k, n, d]: the rational n/d (k = "num"), NaN, +Infinity or   *)
(*     -Infinity; the arithmetic is exact (real-number) arithmetic with    *)
(*     the IEEE special values, rounding is not modelled;                  *)
(*   - a string that is signed is the sequence of its <<key, text>> pairs. *)
(***************************************************************************)
EXTENDS Integers, Sequences, FiniteSets, TLC

VARIABLES
    evidence,   \* the WitnessChainChallengeResult the caller holds
    signals,    \* the RawSignals bundle ({} before it is built)
    stamp,      \* the stamp the caller holds ({} before create)
    signArg,    \* the argument of the last sign call ({} before any)
    signData,   \* the string handed to signer.sign by the last sign call
    vpc,        \* position of the running verify call: idle, loop, done, threw
    vi,         \* index of the next wrapper signature verify looks at
    vres,       \* verify's flags and details (its locals, then its result)
    claim,      \* the LocationClaim the caller evaluates against
    cvec,       \* the last CredibilityVector ({} before any evaluate)
    api,        \* the caller's options and what the all-provers endpoint answers
    proverId,   \* the prover id the caller asks collect for
    thrown      \* the error collect or create has thrown ("none": neither threw)

vars == <<evidence, signals, stamp, signArg, signData, vpc, vi, vres, claim, cvec,
          api, proverId, thrown>>

(***************************************************************************)
(* Bounds of the model                                                     *)
(***************************************************************************)
\* latitudes of the model's grid are 0..MaxLatDeg degrees on one meridian
MaxLatDeg == 2
\* readings of the wall clock at sign time are 1..MaxClock
MaxClock == 1
\* a caller attaches at most this many wrapper signatures by hand
MaxSignatures == 2
\* a prover of the endpoint's answer has at most this many challenge results
MaxResults == 2

(***************************************************************************)
(* JavaScript numbers                                                      *)
(***************************************************************************)
Abs(x) == IF x < 0 THEN -x ELSE x

RECURSIVE Gcd(_, _)
Gcd(a, b) == IF b = 0 THEN a ELSE Gcd(b, a % b)

\* the rational n/d in lowest terms with a positive denominator (d # 0)
Rat(n, d) ==
    LET g == Gcd(Abs(n), Abs(d))
        s == IF d < 0 THEN -1 ELSE 1
    IN  [k |-> "num", n |-> (s * n) \div g, d |-> (s * d) \div g]

Num(i) == [k |-> "num", n |-> i, d |-> 1]
NaN == [k |-> "nan", n |-> 0, d |-> 1]
PosInf == [k |-> "pinf", n |-> 0, d |-> 1]
NegInf == [k |-> "ninf", n |-> 0, d |-> 1]

IsNaN(a) == a.k = "nan"
IsFinite(a) == a.k = "num"

Lcm(a, b) == (a \div Gcd(a, b)) * b

\* a < b as JavaScript evaluates it: false when either side is NaN
NumLt(a, b) ==
    CASE IsNaN(a) \/ IsNaN(b) -> FALSE
      [] a.k = "pinf" -> FALSE
      [] b.k = "ninf" -> FALSE
      [] a.k = "ninf" -> TRUE
      [] b.k = "pinf" -> TRUE
      [] OTHER -> LET l == Lcm(a.d, b.d)
                  IN  a.n * (l \div a.d) < b.n * (l \div b.d)

NumEq(a, b) == ~IsNaN(a) /\ ~IsNaN(b) /\ a = b
NumLe(a, b) == NumLt(a, b) \/ NumEq(a, b)
NumGt(a, b) == NumLt(b, a)

NumNeg(a) ==
    CASE a.k = "num" -> [a EXCEPT !.n = -a.n]
      [] a.k = "pinf" -> NegInf
      [] a.k = "ninf" -> PosInf
      [] OTHER -> NaN

NumAdd(a, b) ==
    CASE IsNaN(a) \/ IsNaN(b) -> NaN
      [] IsFinite(a) /\ IsFinite(b) ->
            LET l == Lcm(a.d, b.d)
            IN  Rat(a.n * (l \div a.d) + b.n * (l \div b.d), l)
      [] IsFinite(a) -> b
      [] IsFinite(b) -> a
      [] OTHER -> IF a = b THEN a ELSE NaN

NumSub(a, b) == NumAdd(a, NumNeg(b))

\* the sign of a number that is not NaN: -1, 0 or 1
Sgn(a) ==
    CASE a.k = "pinf" -> 1
      [] a.k = "ninf" -> -1
      [] OTHER -> IF a.n > 0 THEN 1 ELSE IF a.n < 0 THEN -1 ELSE 0

Signed(s) == IF s > 0 THEN PosInf ELSE NegInf

NumMul(a, b) ==
    CASE IsNaN(a) \/ IsNaN(b) -> NaN
      [] IsFinite(a) /\ IsFinite(b) ->
            LET g1 == Gcd(Abs(a.n), b.d)
                g2 == Gcd(Abs(b.n), a.d)
            IN  Rat((a.n \div g1) * (b.n \div g2), (a.d \div g2) * (b.d \div g1))
      [] OTHER -> IF Sgn(a) * Sgn(b) = 0 THEN NaN ELSE Signed(Sgn(a) * Sgn(b))

\* a / b as JavaScript evaluates it: 0/0 is NaN, x/0 is an infinity (the
\* zero of the model is +0)
NumDiv(a, b) ==
    CASE IsNaN(a) \/ IsNaN(b) -> NaN
      [] IsFinite(a) /\ IsFinite(b) ->
            IF b.n = 0
            THEN IF a.n = 0 THEN NaN ELSE Signed(Sgn(a))
            ELSE NumMul(a, Rat(b.d, b.n))
      [] IsFinite(a) -> Num(0)
      [] IsFinite(b) -> IF b.n < 0 THEN NumNeg(a) ELSE a
      [] OTHER -> NaN

\* Math.max and Math.min: NaN when either argument is NaN
MathMax(a, b) ==
    IF IsNaN(a) \/ IsNaN(b) THEN NaN ELSE IF NumLt(a, b) THEN b ELSE a

MathMin(a, b) ==
    IF IsNaN(a) \/ IsNaN(b) THEN NaN ELSE IF NumLt(b, a) THEN b ELSE a

\* Math.ceil(a / b) for integers a >= 0, b > 0
CeilDiv(a, b) == (a + b - 1) \div b

(***************************************************************************)
(* Identities, signatures and the recovery capability                      *)
(***************************************************************************)
\* private keys: kA is the fixture's test wallet (the challenger), kB a
\* stamp signer's wallet
Keys == {"kA", "kB"}

\* wallet.address: the checksummed (mixed-case) address of a key
AddressOf(key) == IF key = "kA" THEN "0xAa" ELSE "0xBb"

\* String.prototype.toLowerCase on the model's addresses
ToLowerCase(s) ==
    CASE s = "0xAa" -> "0xaa"
      [] s = "0xBb" -> "0xbb"
      [] s = "0xEe" -> "0xee"
      [] OTHER -> s

\* wallet.signMessage: a signature by key over exactly this string
SignMessage(key, message) == [kind |-> "ecdsa", by |-> key, over |-> message]

\* a signature string that is not a well-formed signature
MalformedSignature == [kind |-> "malformed", by |-> "none", over |-> <<>>]

\* ethers.verifyMessage(message, signature): throws on a missing message or a
\* malformed signature; recovers the signer's address from a signature over
\* this very message, and the address of an unrelated key (0xEe, nobody's
\* declared identity) from a signature over any other message
VerifyMessage(message, signature) ==
    IF message = {} \/ signature = {} THEN [threw |-> TRUE, address |-> ""]
    ELSE LET m == CHOOSE x \in message : TRUE
             g == CHOOSE x \in signature : TRUE
         IN  CASE g.kind = "malformed" -> [threw |-> TRUE, address |-> ""]
               [] g.over = m -> [threw |-> FALSE, address |-> AddressOf(g.by)]
               [] OTHER -> [threw |-> FALSE, address |-> "0xEe"]

(***************************************************************************)
(* Locations and serialization                                             *)
(***************************************************************************)
UndefinedLocation == [kind |-> "undefined", coordinates |-> <<>>]
NullLocation == [kind |-> "null", coordinates |-> <<>>]
StringLocation == [kind |-> "string", coordinates |-> <<>>]
\* an object without a coordinates property
BareObjectLocation == [kind |-> "object", coordinates |-> <<>>]
Point(lon, lat) == [kind |-> "point", coordinates |-> <<lon, lat>>]

\* typeof loc === 'object' (true of null as well)
TypeofObject(loc) == loc.kind \in {"null", "object", "point"}

\* 'coordinates' in loc, for a loc that is not null
HasCoordinates(loc) == loc.kind = "point"

\* the properties of a stamp in the order the object literal of create lists
\* them; signatures, when sign or a caller adds it, comes last
StampKeys ==
    <<"lpVersion", "locationType", "location", "srs", "temporalFootprint",
      "plugin", "pluginVersion", "signals", "signatures">>

\* whether JSON.stringify omits the property (its value is undefined)
Omitted(s, key) ==
    CASE key = "location" -> s.location.kind = "undefined"
      [] key = "temporalFootprint" -> s.temporalFootprint = {}
      [] key = "signals" -> s.signals = {}
      [] key = "signatures" -> s.signatures = {}
      [] OTHER -> FALSE

RECURSIVE StringifyFrom(_, _)
StringifyFrom(s, i) ==
    IF i > Len(StampKeys) THEN <<>>
    ELSE LET key == StampKeys[i]
         IN  (IF Omitted(s, key) THEN <<>> ELSE << <<key, ToString(s[key])>> >>)
             \o StringifyFrom(s, i + 1)

\* JSON.stringify of a stamp: its defined properties, in order
JSONStringify(s) == StringifyFrom(s, 1)

\* a verify that serializes the stamp with its signatures left in
WithoutSignaturesKept(s) == s

\* const { signatures: _, ...unsigned } = stamp
WithoutSignatures(s) == [s EXCEPT !.signatures = {}]

(***************************************************************************)
(* Challenge results (the test fixture) and collection                     *)
(***************************************************************************)
\* JSON.stringify({id, challenger, claims, result, timestamp})
MessagePayload(base) ==
    << <<"id", base.id>>,
       <<"challenger", base.challenger>>,
       <<"claims", ToString(base.claims)>>,
       <<"result", ToString(base.result)>>,
       <<"timestamp", ToString(base.challenge_start_time)>> >>

\* consolidated_result of the success fixture and of the failed fixture
SuccessConsolidated ==
    [KnowLoc |-> "true", KnowLocUncertainty |-> {5}, ipapi |-> "true",
     ipregistry |-> "true", maxmind |-> "false", verified |-> "true"]

FailedConsolidated ==
    [KnowLoc |-> "false", KnowLocUncertainty |-> {150}, ipapi |-> "undefined",
     ipregistry |-> "undefined", maxmind |-> "undefined", verified |-> "false"]

\* createChallengeFixture(overrides): the base result with the overrides
\* applied, its message payload, signed by the test wallet; an override of
\* the signature replaces the wallet's. challenge_start_time is held as
\* epoch milliseconds, ping_delay in microseconds
CreateChallengeFixture(o) ==
    LET base == [id |-> "challenge-001",
                 challenge_start_time |-> o.startMs,
                 challenger |-> AddressOf("kA"),
                 challenger_id |-> "watchtower-nyc-01",
                 challenger_claims |-> [latitude |-> 0, longitude |-> 0, radius |-> 50],
                 claims |-> [latitude |-> o.latitude, longitude |-> 0, radius |-> 100],
                 result |-> [challenge_succeeded |-> o.succeeded, ping_delay |-> o.pingDelay],
                 consolidated_result |-> o.consolidated]
        payload == MessagePayload(base)
    IN  [shape |-> "result",
         id |-> base.id,
         challenge_start_time |-> base.challenge_start_time,
         challenger |-> base.challenger,
         challenger_id |-> base.challenger_id,
         challenger_claims |-> base.challenger_claims,
         claims |-> base.claims,
         result |-> base.result,
         consolidated_result |-> base.consolidated_result,
         message |-> {payload},
         signature |-> IF o.signature = {} THEN {SignMessage("kA", payload)}
                       ELSE o.signature]

\* a challengeResult that is truthy but has none of the fields (an empty
\* object, say): what a malformed embedded result looks like to verify
GarbageResult ==
    [CreateChallengeFixture([startMs |-> 0, latitude |-> 0, succeeded |-> "true",
                             pingDelay |-> 0, consolidated |-> SuccessConsolidated,
                             signature |-> {}])
        EXCEPT !.shape = "garbage", !.message = {}, !.signature = {}]

\* signalsFromChallengeResult(result)
SignalsFromChallengeResult(result) ==
    [plugin |-> "witnesschain",
     timestamp |-> result.challenge_start_time \div 1000,
     data |-> [challengeResult |-> {result}, proverClaims |-> result.claims]]

\* r.result.challenge_succeeded, as the filter of collect reads it
Succeeded(r) == r.result.challenge_succeeded = "true"

\* provers.find(p => p.id === proverId): the position of the first prover
\* with this id, 0 when there is none
FindProver(provers, id) ==
    IF \E i \in 1..Len(provers) : provers[i].id = id
    THEN CHOOSE i \in 1..Len(provers) :
            /\ provers[i].id = id
            /\ \A j \in 1..(i - 1) : provers[j].id # id
    ELSE 0

\* collectWitnessChain(proverId, options), a the options and the endpoint's
\* answer: the error it throws ("none" when it returns) and the RawSignals it
\* returns. The errors are named after the condition that raises them.
CollectWitnessChain(id, a) ==
    LET failed(name) == [thrown |-> name, signals |-> {}]
        i == FindProver(a.provers, id)
    IN  IF ~a.auth THEN failed("AuthenticationRequired")
        ELSE IF ~a.ok THEN failed("ApiError")
        ELSE IF i = 0 THEN failed("ProverNotFound")
        ELSE LET prover == a.provers[i]
                 successfulResults == SelectSeq(prover.results, Succeeded)
             IN  IF Len(successfulResults) = 0 THEN failed("NoSuccessfulChallenge")
                 ELSE LET latest == successfulResults[1]
                      IN  [thrown |-> "none",
                           signals |->
                             {[plugin |-> "witnesschain",
                               timestamp |-> latest.challenge_start_time \div 1000,
                               data |-> [challengeResult |-> {latest},
                                         proverClaims |-> prover.claims,
                                         proverId |-> id]]}]

(***************************************************************************)
(* createWitnessChainStamp                                                 *)
(***************************************************************************)
PLUGIN_NAME == "witnesschain"
PLUGIN_VERSION == "0.1.0"

MaxOf(a, b) == IF a > b THEN a ELSE b

\* a duration that rounds the ping delay down to whole seconds
DurationSecondsFloor(pingDelay) == MaxOf(10, pingDelay \div 1000000 + 5)

\* the duration of the challenge in seconds, from the ping delay
DurationSeconds(pingDelay) == MaxOf(10, CeilDiv(pingDelay, 1000000) + 5)

\* createWitnessChainStamp(signals), for signals that hold a challengeResult
CreateWitnessChainStamp(sig) ==
    LET challengeResult == CHOOSE x \in sig.data.challengeResult : TRUE
        latitude == challengeResult.claims.latitude
        longitude == challengeResult.claims.longitude
        startTime == challengeResult.challenge_start_time \div 1000
        durationSeconds == DurationSeconds(challengeResult.result.ping_delay)
    IN  [lpVersion |-> "0.2",
         locationType |-> "geojson-point",
         location |-> Point(longitude, latitude),
         srs |-> "EPSG:4326",
         temporalFootprint |-> {[start |-> startTime, end |-> startTime + durationSeconds]},
         plugin |-> PLUGIN_NAME,
         pluginVersion |-> PLUGIN_VERSION,
         signals |-> {[challengeId |-> {challengeResult.id},
                       challenger |-> challengeResult.challenger,
                       challengerId |-> challengeResult.challenger_id,
                       challengerClaims |-> challengeResult.challenger_claims,
                       proverClaims |-> challengeResult.claims,
                       challengeSucceeded |-> challengeResult.result.challenge_succeeded,
                       pingDelayMicroseconds |-> challengeResult.result.ping_delay,
                       consolidatedResult |-> {challengeResult.consolidated_result},
                       knowLocUncertaintyKm |->
                           challengeResult.consolidated_result.KnowLocUncertainty,
                       challengeResult |-> {}]},
         signatures |-> {}]

\* a create without the guard on challengeResult: reading the claims of an
\* undefined challengeResult raises a TypeError
CreateOutcomeUnguarded(sig) ==
    IF sig.data.challengeResult = {}
    THEN [thrown |-> "TypeError", stamp |-> {}]
    ELSE [thrown |-> "none", stamp |-> {CreateWitnessChainStamp(sig)}]

\* createWitnessChainStamp(signals) for any signals with a data mapping: the
\* error it throws ("none" when it returns) and the stamp it returns
CreateOutcome(sig) ==
    IF sig.data.challengeResult = {}
    THEN [thrown |-> "MissingEvidence", stamp |-> {}]
    ELSE [thrown |-> "none", stamp |-> {CreateWitnessChainStamp(sig)}]

(***************************************************************************)
(* WitnessChainPlugin.sign                                                 *)
(***************************************************************************)
\* createTestSigner(): a signer that signs with key and declares identity
TestSigner(key, identity) ==
    [algorithm |-> "secp256k1",
     signer |-> [scheme |-> "eth-address", value |-> identity],
     key |-> key]

\* the signers given to sign: one that declares its wallet's address, one
\* that declares somebody else's
Signers == {TestSigner("kB", AddressOf("kB")), TestSigner("kB", AddressOf("kA"))}

\* const data = JSON.stringify(stamp)
SignedData(s) == JSONStringify(s)

\* the signature record sign builds
SignatureRecord(s, signer, now) ==
    [signer |-> signer.signer,
     algorithm |-> signer.algorithm,
     value |-> SignMessage(signer.key, SignedData(s)),
     timestamp |-> now]

\* the signatures property of the stamp sign returns
SignedSignatures(s, signer, now) == <<SignatureRecord(s, signer, now)>>

\* sign(stamp, signer): { ...stamp, signatures: [ ... ] }
sign(s, signer, now) ==
    [s EXCEPT !.signatures = {SignedSignatures(s, signer, now)}]

\* the wrapper signatures of a stamp, an empty sequence when it has none
SignaturesOf(s) == IF s.signatures = {} THEN <<>> ELSE CHOOSE x \in s.signatures : TRUE

(***************************************************************************)
(* verifyWitnessChainStamp                                                 *)
(***************************************************************************)
\* const details = {}: no key set. A key whose value is only ever true is a
\* boolean (FALSE: absent); any other key is an optional value
EmptyDetails ==
    [lpVersionError |-> {}, pluginMismatch |-> {}, missingFields |-> FALSE,
     missingChallengeData |-> FALSE, challengeSignatureMismatch |-> {},
     challengeSignerVerified |-> FALSE, recoveredAddress |-> {},
     challengeSignatureError |-> {}, stampSignatureMismatch |-> {},
     stampSignatureError |-> {}, noSignatures |-> FALSE,
     invalidLongitude |-> {}, invalidLatitude |-> {}, challengeFailed |-> FALSE,
     invalidConsolidatedResult |-> {}]

\* the locals of verify when it starts
VerifyLocals ==
    [signaturesValid |-> TRUE, structureValid |-> TRUE, signalsConsistent |-> TRUE,
     valid |-> FALSE, details |-> EmptyDetails]

\* stamp.signals.<property> throws a TypeError when signals is missing
SignalsMissing(s) == s.signals = {}

SignalsOf(s) == CHOOSE x \in s.signals : TRUE

\* const challengeResult = stamp.signals.challengeResult
EmbeddedResult(s) == SignalsOf(s).challengeResult

\* the structure checks
StructureChecks(s, r) ==
    LET r1 == IF s.lpVersion # "0.2"
              THEN [r EXCEPT !.structureValid = FALSE,
                             !.details.lpVersionError = {s.lpVersion}]
              ELSE r
        r2 == IF s.plugin # "witnesschain"
              THEN [r1 EXCEPT !.structureValid = FALSE,
                              !.details.pluginMismatch = {s.plugin}]
              ELSE r1
        r3 == IF s.location.kind \in {"undefined", "null"} \/ s.temporalFootprint = {}
              THEN [r2 EXCEPT !.structureValid = FALSE, !.details.missingFields = TRUE]
              ELSE r2
    IN  IF EmbeddedResult(s) = {}
           /\ (SignalsOf(s).challengeId = {} \/ SignalsOf(s).challengeSucceeded = "undefined")
        THEN [r3 EXCEPT !.structureValid = FALSE, !.details.missingChallengeData = TRUE]
        ELSE r3

\* the check of the challenger's signature on the embedded challenge result
ChallengeSignatureCheck(s, r) ==
    IF EmbeddedResult(s) = {} THEN r
    ELSE LET challengeResult == CHOOSE x \in EmbeddedResult(s) : TRUE
             rec == VerifyMessage(challengeResult.message, challengeResult.signature)
         IN  IF rec.threw
             THEN [r EXCEPT !.signaturesValid = FALSE,
                            !.details.challengeSignatureError = {"error"}]
             ELSE IF ToLowerCase(rec.address) # ToLowerCase(challengeResult.challenger)
             THEN [r EXCEPT !.signaturesValid = FALSE,
                            !.details.challengeSignatureMismatch =
                                {[expected |-> challengeResult.challenger,
                                  recovered |-> rec.address]}]
             ELSE [r EXCEPT !.details.challengeSignerVerified = TRUE,
                            !.details.recoveredAddress = {rec.address}]

\* a loop in which the last wrapper signature decides: a matching signature
\* sets signaturesValid back to true
StampSignatureCheckLastWins(s, sig, r) ==
    LET message == JSONStringify(WithoutSignatures(s))
        rec == VerifyMessage({message}, {sig.value})
    IN  IF rec.threw
        THEN [r EXCEPT !.signaturesValid = FALSE,
                       !.details.stampSignatureError = {"error"}]
        ELSE IF ToLowerCase(rec.address) # ToLowerCase(sig.signer.value)
        THEN [r EXCEPT !.signaturesValid = FALSE,
                       !.details.stampSignatureMismatch =
                           {[expected |-> sig.signer.value, recovered |-> rec.address]}]
        ELSE [r EXCEPT !.signaturesValid = TRUE]

\* one iteration of the loop over the stamp's wrapper signatures
StampSignatureCheck(s, sig, r) ==
    LET message == JSONStringify(WithoutSignatures(s))
        rec == VerifyMessage({message}, {sig.value})
    IN  IF rec.threw
        THEN [r EXCEPT !.signaturesValid = FALSE,
                       !.details.stampSignatureError = {"error"}]
        ELSE IF ToLowerCase(rec.address) # ToLowerCase(sig.signer.value)
        THEN [r EXCEPT !.signaturesValid = FALSE,
                       !.details.stampSignatureMismatch =
                           {[expected |-> sig.signer.value, recovered |-> rec.address]}]
        ELSE r

\* a verify without the else-if branch: nothing to verify is accepted
NoSignaturesCheckSkipped(s, r) == r

\* else if (!challengeResult): no wrapper signature and no challenge result
NoSignaturesCheck(s, r) ==
    IF Len(SignaturesOf(s)) = 0 /\ EmbeddedResult(s) = {}
    THEN [r EXCEPT !.signaturesValid = FALSE, !.details.noSignatures = TRUE]
    ELSE r

\* 'coordinates' in loc throws a TypeError when loc is null
CoordinateCheckThrows(s) == s.location.kind = "null"

\* a range check that stops at the first coordinate out of range
CoordinateCheckFirstOnly(s, r) ==
    IF TypeofObject(s.location) /\ HasCoordinates(s.location)
    THEN LET coords == s.location.coordinates
         IN  IF coords[1] < -180 \/ coords[1] > 180
             THEN [r EXCEPT !.signalsConsistent = FALSE,
                            !.details.invalidLongitude = {coords[1]}]
             ELSE IF coords[2] < -90 \/ coords[2] > 90
             THEN [r EXCEPT !.signalsConsistent = FALSE,
                            !.details.invalidLatitude = {coords[2]}]
             ELSE r
    ELSE r

\* the coordinate ranges
CoordinateCheck(s, r) ==
    IF TypeofObject(s.location) /\ HasCoordinates(s.location)
    THEN LET coords == s.location.coordinates
             r1 == IF coords[1] < -180 \/ coords[1] > 180
                   THEN [r EXCEPT !.signalsConsistent = FALSE,
                                  !.details.invalidLongitude = {coords[1]}]
                   ELSE r
         IN  IF coords[2] < -90 \/ coords[2] > 90
             THEN [r1 EXCEPT !.signalsConsistent = FALSE,
                             !.details.invalidLatitude = {coords[2]}]
             ELSE r1
    ELSE r

\* a signal check that treats a failed challenge as an inconsistency
SignalChecksFatal(s, r) ==
    LET r1 == IF SignalsOf(s).challengeSucceeded = "false"
              THEN [r EXCEPT !.signalsConsistent = FALSE,
                             !.details.challengeFailed = TRUE]
              ELSE r
    IN  IF SignalsOf(s).consolidatedResult # {}
           /\ (CHOOSE x \in SignalsOf(s).consolidatedResult : TRUE).KnowLoc
                 \notin {"true", "false"}
        THEN [r1 EXCEPT !.signalsConsistent = FALSE,
                        !.details.invalidConsolidatedResult = {"KnowLoc must be boolean"}]
        ELSE r1

\* the warning for a failed challenge and the shape of the consolidated result
SignalChecks(s, r) ==
    LET r1 == IF SignalsOf(s).challengeSucceeded = "false"
              THEN [r EXCEPT !.details.challengeFailed = TRUE]
              ELSE r
    IN  IF SignalsOf(s).consolidatedResult # {}
           /\ (CHOOSE x \in SignalsOf(s).consolidatedResult : TRUE).KnowLoc
                 \notin {"true", "false"}
        THEN [r1 EXCEPT !.signalsConsistent = FALSE,
                        !.details.invalidConsolidatedResult = {"KnowLoc must be boolean"}]
        ELSE r1

\* a returned object whose valid flag leaves signalsConsistent out
VerifyReturnWithoutSignals(r) ==
    [r EXCEPT !.valid = r.signaturesValid /\ r.structureValid]

\* the returned object
VerifyReturn(r) ==
    [r EXCEPT !.valid = r.signaturesValid /\ r.structureValid /\ r.signalsConsistent]

\* the loop over the wrapper signatures, from the i-th on
RECURSIVE SignatureLoop(_, _, _)
SignatureLoop(s, i, r) ==
    IF i > Len(SignaturesOf(s)) THEN r
    ELSE SignatureLoop(s, i + 1, StampSignatureCheck(s, SignaturesOf(s)[i], r))

\* verifyWitnessChainStamp(stamp) as one call: whether it throws, and the
\* result it returns otherwise
VerifyWitnessChainStamp(s) ==
    IF SignalsMissing(s) \/ CoordinateCheckThrows(s)
    THEN [threw |-> TRUE, result |-> VerifyLocals]
    ELSE [threw |-> FALSE,
          result |->
             VerifyReturn(
               SignalChecks(s,
                 CoordinateCheck(s,
                   NoSignaturesCheck(s,
                     SignatureLoop(s, 1,
                       ChallengeSignatureCheck(s,
                         StructureChecks(s, VerifyLocals)))))))]

(***************************************************************************)
(* evaluateWitnessChainStamp                                               *)
(***************************************************************************)
EARTH_RADIUS_M == 6371000

\* the great-circle angle, in whole degrees, between two points of the
\* model's grid: two points on one meridian, or two points on the equator.
\* There a = sin^2(delta / 2) and 2 * asin(sqrt(a)) is delta folded into
\* [0, 180]
ArcDegrees(lat1, lon1, lat2, lon2) ==
    LET delta == IF lon1 = lon2 THEN Abs(lat2 - lat1) ELSE Abs(lon2 - lon1)
        m == delta % 360
    IN  IF m > 180 THEN 360 - m ELSE m

\* haversineDistance on the grid: EARTH_RADIUS_M * pi * degrees / 180 in
\* whole metres, pi taken as 355/113; the products are split so that no
\* intermediate value leaves the 32-bit range
HaversineDistance(lat1, lon1, lat2, lon2) ==
    LET t == (EARTH_RADIUS_M \div 1000) * 355 * ArcDegrees(lat1, lon1, lat2, lon2)
        den == 113 * 180
    IN  Num((t \div den) * 1000 + ((t % den) * 1000) \div den)

MinOf(a, b) == IF a < b THEN a ELSE b

\* an overlap that is left in seconds instead of being divided by the
\* shorter duration
TemporalOverlapSeconds(a, b) ==
    LET overlapStart == MaxOf(a.start, b.start)
        overlapEnd == MinOf(a.end, b.end)
    IN  IF overlapEnd <= overlapStart THEN Num(0) ELSE Num(overlapEnd - overlapStart)

\* temporalOverlap(a, b)
TemporalOverlap(a, b) ==
    LET overlapStart == MaxOf(a.start, b.start)
        overlapEnd == MinOf(a.end, b.end)
        overlap == overlapEnd - overlapStart
        shorter == MinOf(a.end - a.start, b.end - b.start)
    IN  IF overlapEnd <= overlapStart THEN Num(0)
        ELSE IF shorter > 0 THEN Rat(overlap, shorter) ELSE Num(0)

\* (stamp.signals.knowLocUncertaintyKm) ?? 50
KnowLocUncertaintyKm(s) ==
    IF SignalsOf(s).knowLocUncertaintyKm = {} THEN 50
    ELSE CHOOSE x \in SignalsOf(s).knowLocUncertaintyKm : TRUE

\* claim.radius + knowLocUncertaintyKm * 1000
EffectiveRadius(s, c) == Num(c.radius + KnowLocUncertaintyKm(s) * 1000)

\* the spatial score before the bonuses
BaseSpatial(distance, effectiveRadius) ==
    IF NumLe(distance, effectiveRadius)
    THEN NumSub(Num(1), NumDiv(distance, effectiveRadius))
    ELSE MathMax(Num(0), NumSub(Num(1), NumDiv(distance, NumMul(effectiveRadius, Num(3)))))

IpSources == {"ipapi", "ipregistry", "maxmind"}
\* a total that counts the sources absent from the record as well
IpSourcesTotalAll(consolidated) == Cardinality(IpSources)
IpSourcesTotal(consolidated) == Cardinality({key \in IpSources : consolidated[key] # "undefined"})
IpSourcesAgreed(consolidated) == Cardinality({key \in IpSources : consolidated[key] = "true"})

\* the spatial score with the multi-source verification bonuses
WithBonuses(spatial, consolidated) ==
    LET s1 == IF IpSourcesTotal(consolidated) > 0
              THEN MathMin(Num(1),
                           NumAdd(spatial,
                                  NumMul(Rat(IpSourcesAgreed(consolidated),
                                             IpSourcesTotal(consolidated)),
                                         Rat(1, 10))))
              ELSE spatial
        s2 == IF consolidated.KnowLoc = "true"
              THEN MathMin(Num(1), NumAdd(s1, Rat(5, 100)))
              ELSE s1
    IN  IF consolidated.verified = "true"
        THEN MathMin(Num(1), NumAdd(s2, Rat(5, 100)))
        ELSE s2

\* the penalty for a failed challenge
ChallengePenalty(s) ==
    IF SignalsOf(s).challengeSucceeded = "false" THEN Rat(3, 10) ELSE Num(0)

\* a score that takes the penalty off the spatial score before weighting
RawScorePenaltyOnSpatial(spatial, temporal, challengePenalty) ==
    NumAdd(NumMul(NumSub(spatial, challengePenalty), Rat(65, 100)),
           NumMul(temporal, Rat(35, 100)))

\* spatial * 0.65 + temporal * 0.35 - challengePenalty
RawScore(spatial, temporal, challengePenalty) ==
    NumSub(NumAdd(NumMul(spatial, Rat(65, 100)), NumMul(temporal, Rat(35, 100))),
           challengePenalty)

\* Math.max(0, Math.min(1, rawScore))
ClampScore(rawScore) == MathMax(Num(0), MathMin(Num(1), rawScore))

\* a verdict that looks at the combined score alone
SupportsClaimByScore(score, spatial, temporal) == NumGt(score, Rat(3, 10))

\* score > 0.3 && spatial > 0.1 && temporal > 0
SupportsClaim(score, spatial, temporal) ==
    NumGt(score, Rat(3, 10)) /\ NumGt(spatial, Rat(1, 10)) /\ NumGt(temporal, Num(0))

NoEvalDetails ==
    [error |-> {}, distanceMeters |-> {}, effectiveRadiusMeters |-> {},
     knowLocUncertaintyKm |-> {}, ipSourcesAgreed |-> {}, ipSourcesTotal |-> {},
     knowLocVerified |-> FALSE, consolidatedVerified |-> FALSE,
     temporalOverlap |-> {}, challengeFailedPenalty |-> {}]

\* evaluate raised an exception instead of returning
EvalThrew ==
    [outcome |-> "threw", supportsClaim |-> FALSE, score |-> Num(0), spatial |-> Num(0),
     temporal |-> Num(0), details |-> NoEvalDetails]

\* the vector returned when a location has no coordinates
EvalError(text) ==
    [outcome |-> "returned", supportsClaim |-> FALSE, score |-> Num(0),
     spatial |-> Num(0), temporal |-> Num(0),
     details |-> [NoEvalDetails EXCEPT !.error = {text}]]

\* the scoring, for a stamp and a claim that both have coordinates, a stamp
\* that has a signals mapping and a temporal footprint
EvalScore(s, c) ==
    LET distance == HaversineDistance(s.location.coordinates[2], s.location.coordinates[1],
                                      c.location.coordinates[2], c.location.coordinates[1])
        effectiveRadius == EffectiveRadius(s, c)
        base == BaseSpatial(distance, effectiveRadius)
        consolidated == SignalsOf(s).consolidatedResult
        con == CHOOSE x \in consolidated : TRUE
        spatial == IF consolidated # {} THEN WithBonuses(base, con) ELSE base
        temporal == TemporalOverlap(CHOOSE x \in s.temporalFootprint : TRUE, c.time)
        challengePenalty == ChallengePenalty(s)
        score == ClampScore(RawScore(spatial, temporal, challengePenalty))
    IN  [outcome |-> "returned",
         supportsClaim |-> SupportsClaim(score, spatial, temporal),
         score |-> score,
         spatial |-> spatial,
         temporal |-> temporal,
         details |->
            [error |-> {},
             distanceMeters |-> {distance},
             effectiveRadiusMeters |-> {effectiveRadius},
             knowLocUncertaintyKm |-> {KnowLocUncertaintyKm(s)},
             ipSourcesAgreed |-> IF consolidated # {} /\ IpSourcesTotal(con) > 0
                                 THEN {IpSourcesAgreed(con)} ELSE {},
             ipSourcesTotal |-> IF consolidated # {} /\ IpSourcesTotal(con) > 0
                                THEN {IpSourcesTotal(con)} ELSE {},
             knowLocVerified |-> consolidated # {} /\ con.KnowLoc = "true",
             consolidatedVerified |-> consolidated # {} /\ con.verified = "true",
             temporalOverlap |-> {temporal},
             challengeFailedPenalty |-> IF SignalsOf(s).challengeSucceeded = "false"
                                        THEN {challengePenalty} ELSE {}]]

\* evaluateWitnessChainStamp(stamp, claim)
EvaluateWitnessChainStamp(s, c) ==
    CASE s.location.kind = "null" -> EvalThrew
      [] ~(TypeofObject(s.location) /\ HasCoordinates(s.location)) ->
            EvalError("Cannot extract coordinates from stamp location")
      [] c.location.kind = "null" -> EvalThrew
      [] ~(TypeofObject(c.location) /\ HasCoordinates(c.location)) ->
            EvalError("Cannot extract coordinates from claim location")
      [] SignalsMissing(s) -> EvalThrew
      [] s.temporalFootprint = {} -> EvalThrew
      [] OTHER -> EvalScore(s, c)

(***************************************************************************)
(* The inputs of the model                                                 *)
(***************************************************************************)
\* a signature of the test wallet's over another string
ForeignSignature == SignMessage("kA", <<>>)

\* the challenge results verification starts from: the fixture, a fixture
\* whose signature override is a signature over something else, and one whose
\* signature override is not a signature
VerifyFixtures ==
    {CreateChallengeFixture([startMs |-> 10500, latitude |-> 0, succeeded |-> ok,
                             pingDelay |-> 15000, consolidated |-> SuccessConsolidated,
                             signature |-> g]) :
        ok \in {"true", "false"},
        g \in {{}, {ForeignSignature}, {MalformedSignature}}}

\* the consolidated results evaluation starts from
EvalConsolidated ==
    {[c EXCEPT !.KnowLocUncertainty = u] :
        c \in {SuccessConsolidated, FailedConsolidated,
               [FailedConsolidated EXCEPT !.maxmind = "true"]},
        u \in {{}, {0}, {150}}}

\* the challenge results evaluation starts from
EvalFixtures ==
    {CreateChallengeFixture([startMs |-> 10500, latitude |-> lat, succeeded |-> ok,
                             pingDelay |-> 15000, consolidated |-> con,
                             signature |-> {}]) :
        lat \in 0..MaxLatDeg, ok \in {"true", "false"}, con \in EvalConsolidated}

\* createChallengeFixture({ claims: { latitude, longitude, radius: 100 } }):
\* the overridden claims are the ones the message holds and the wallet signs
ClaimsOverride(o, longitude, latitude) ==
    LET fixture == CreateChallengeFixture(o)
        base == [fixture EXCEPT !.claims = [latitude |-> latitude,
                                            longitude |-> longitude,
                                            radius |-> 100]]
        payload == MessagePayload(base)
    IN  [base EXCEPT !.message = {payload},
                     !.signature = {SignMessage("kA", payload)}]

\* <<longitude, latitude>> pairs in range, on the edge of the range and out
\* of range
CoordinateChoices == {<<0, 0>>, <<180, -90>>, <<0, 200>>, <<-181, 0>>, <<181, -91>>}

\* the challenge results the coordinate checks start from
RangeFixtures ==
    {ClaimsOverride([startMs |-> 10500, latitude |-> 0, succeeded |-> ok,
                     pingDelay |-> 15000, consolidated |-> SuccessConsolidated,
                     signature |-> {}], c[1], c[2]) :
        ok \in {"true", "false"}, c \in CoordinateChoices}

\* the signers of hand-made wrapper signatures that fail in different ways:
\* a wallet that declares somebody else's address, and somebody else's
\* wallet that declares this one's
FailingSigners == {TestSigner("kB", AddressOf("kA")), TestSigner("kA", AddressOf("kB"))}

\* the challenge results the endpoint lists for a prover: early and late,
\* failed and successful, with a short and a long ping delay
ApiResults ==
    {CreateChallengeFixture([startMs |-> ms, latitude |-> 1, succeeded |-> ok,
                             pingDelay |-> delay, consolidated |-> SuccessConsolidated,
                             signature |-> {}]) :
        ms \in {10500, 20500}, ok \in {"true", "false"}, delay \in {0, 6000001}}

\* the lists of at most MaxResults challenge results
RECURSIVE ResultLists(_)
ResultLists(n) ==
    IF n = 0 THEN {<<>>}
    ELSE LET shorter == ResultLists(n - 1)
         IN  shorter \cup {Append(l, r) : l \in {x \in shorter : Len(x) = n - 1},
                                          r \in ApiResults}

\* a prover record of the endpoint's answer
Prover(id, results) ==
    [id |-> id, claims |-> [latitude |-> 1, longitude |-> 0, radius |-> 100],
     results |-> results]

\* what the caller's options and the endpoint can be: no credentials, an
\* answer that is not ok, and answers that list no prover, prover p1 alone or
\* prover p1 after another prover
ApiStates ==
    {[auth |-> FALSE, ok |-> TRUE, provers |-> <<>>],
     [auth |-> TRUE, ok |-> FALSE, provers |-> <<>>],
     [auth |-> TRUE, ok |-> TRUE, provers |-> <<>>]}
    \cup {[auth |-> TRUE, ok |-> TRUE, provers |-> ps] :
            ps \in {<<Prover("p1", l)>> : l \in ResultLists(MaxResults)}
                \cup {<<Prover("p0", <<>>), Prover("p1", l)>> :
                         l \in ResultLists(MaxResults)}}

\* no collect call is part of the behaviour
NoApi == [auth |-> FALSE, ok |-> FALSE, provers |-> <<>>]

\* nearClaim(overrides)
NearClaim(location, radius, time) ==
    [location |-> location, radius |-> radius, time |-> time]

\* the claims of the model: on the grid or without coordinates, with and
\* without a radius, over windows that contain, cut, touch, miss and equal a
\* stamp's, and a window of no duration inside it
Claims ==
    {NearClaim(l, r, t) :
        l \in {Point(0, lat) : lat \in 0..MaxLatDeg} \cup {StringLocation, NullLocation},
        r \in {0, 500},
        t \in {[start |-> 0, end |-> 100], [start |-> 15, end |-> 40],
               [start |-> 20, end |-> 30], [start |-> 0, end |-> 5],
               [start |-> 10, end |-> 20], [start |-> 15, end |-> 15]}}

DefaultClaim == NearClaim(Point(0, 0), 500, [start |-> 0, end |-> 100])

\* the signers a caller signs by hand with: one that declares its wallet's
\* address in lower case, one that declares somebody else's
AttachSigners ==
    {TestSigner("kB", ToLowerCase(AddressOf("kB"))), TestSigner("kB", AddressOf("kA"))}

\* the challenger's signature on the result is the test wallet's, over the
\* result's message
WalletSigned(result) ==
    result.message # {}
    /\ result.signature = {SignMessage("kA", CHOOSE m \in result.message : TRUE)}

(***************************************************************************)
(* The state machine                                                       *)
(***************************************************************************)
TheStamp == CHOOSE x \in stamp : TRUE
TheEvidence == CHOOSE x \in evidence : TRUE

\* no verify call is running
Quiet == vpc # "loop"

\* a new stamp value has no verification result and no credibility vector yet
ResetResults ==
    /\ vpc' = "idle"
    /\ vi' = 0
    /\ vres' = VerifyLocals
    /\ claim' = DefaultClaim
    /\ cvec' = {}

InitCommon ==
    /\ signals = {}
    /\ stamp = {}
    /\ signArg = {}
    /\ signData = {}
    /\ vpc = "idle"
    /\ vi = 0
    /\ vres = VerifyLocals
    /\ claim = DefaultClaim
    /\ cvec = {}
    /\ thrown = "none"

Init ==
    /\ evidence \in {{e} : e \in VerifyFixtures}
    /\ api = NoApi
    /\ proverId = "p1"
    /\ InitCommon

InitEval ==
    /\ evidence \in {{e} : e \in EvalFixtures}
    /\ api = NoApi
    /\ proverId = "p1"
    /\ InitCommon

InitRange ==
    /\ evidence \in {{e} : e \in RangeFixtures}
    /\ api = NoApi
    /\ proverId = "p1"
    /\ InitCommon

\* the caller holds no challenge result yet: it asks the endpoint
InitCollect ==
    /\ evidence = {}
    /\ api \in ApiStates
    /\ proverId \in {"p1", "p9"}
    /\ InitCommon

\* challengeResult.challenger = '0x...': the caller replaces the challenger
\* after the result was signed
TamperChallenger(a) ==
    /\ signals = {}
    /\ WalletSigned(TheEvidence)
    /\ TheEvidence.challenger = AddressOf("kA")
    /\ evidence' = {[TheEvidence EXCEPT !.challenger = a]}
    /\ UNCHANGED <<signals, stamp, signArg, signData, vpc, vi, vres, claim, cvec>>
    /\ UNCHANGED <<api, proverId, thrown>>

\* the caller moves the prover's claimed latitude after the result was signed
TamperClaims ==
    /\ signals = {}
    /\ WalletSigned(TheEvidence)
    /\ TheEvidence.claims.latitude = 0
    /\ evidence' = {[TheEvidence EXCEPT !.claims.latitude = 1]}
    /\ UNCHANGED <<signals, stamp, signArg, signData, vpc, vi, vres, claim, cvec>>
    /\ UNCHANGED <<api, proverId, thrown>>

\* signals = signalsFromChallengeResult(challengeResult)
BuildSignals ==
    /\ signals = {}
    /\ signals' = {SignalsFromChallengeResult(TheEvidence)}
    /\ UNCHANGED <<evidence, stamp, signArg, signData, vpc, vi, vres, claim, cvec>>
    /\ UNCHANGED <<api, proverId, thrown>>

\* unsigned = createWitnessChainStamp(signals)
Create ==
    /\ signals # {}
    /\ stamp = {}
    /\ thrown = "none"
    /\ LET outcome == CreateOutcome(CHOOSE x \in signals : TRUE)
       IN  /\ thrown' = outcome.thrown
           /\ stamp' = outcome.stamp
    /\ ResetResults
    /\ UNCHANGED <<evidence, signals, signArg, signData, api, proverId>>

\* signals = await collectWitnessChain(proverId, options)
Collect ==
    /\ evidence = {}
    /\ signals = {}
    /\ thrown = "none"
    /\ LET outcome == CollectWitnessChain(proverId, api)
       IN  /\ thrown' = outcome.thrown
           /\ signals' = outcome.signals
    /\ UNCHANGED <<evidence, stamp, signArg, signData, vpc, vi, vres, claim, cvec>>
    /\ UNCHANGED <<api, proverId>>

\* { plugin: 'witnesschain', timestamp, data: {} }: a bundle without the
\* challenge result
EmptySignals ==
    /\ evidence = {}
    /\ signals = {}
    /\ thrown = "none"
    /\ signals' = {[plugin |-> "witnesschain", timestamp |-> 123,
                    data |-> [challengeResult |-> {}]]}
    /\ UNCHANGED <<evidence, stamp, signArg, signData, vpc, vi, vres, claim, cvec>>
    /\ UNCHANGED <<api, proverId, thrown>>

\* the caller's stamp is still the unsigned one it is building
Building == stamp # {} /\ TheStamp.signatures = {} /\ Quiet

\* { ...unsigned, signals: { ...unsigned.signals, challengeResult } }
Embed(result) ==
    /\ Building
    /\ ~SignalsMissing(TheStamp)
    /\ EmbeddedResult(TheStamp) = {}
    /\ stamp' = {[TheStamp EXCEPT !.signals = {[SignalsOf(TheStamp) EXCEPT
                                                  !.challengeResult = {result}]}]}
    /\ ResetResults
    /\ UNCHANGED <<evidence, signals, signArg, signData>>
    /\ UNCHANGED <<api, proverId, thrown>>

\* { ...unsigned, plugin: 'wrong-plugin' }
SetPlugin ==
    /\ Building
    /\ TheStamp.plugin = PLUGIN_NAME
    /\ stamp' = {[TheStamp EXCEPT !.plugin = "wrong-plugin"]}
    /\ ResetResults
    /\ UNCHANGED <<evidence, signals, signArg, signData>>
    /\ UNCHANGED <<api, proverId, thrown>>

\* { ...unsigned, location: ... }: a location that is not a GeoJSON point
SetLocation(l) ==
    /\ Building
    /\ TheStamp.location.kind = "point"
    /\ stamp' = {[TheStamp EXCEPT !.location = l]}
    /\ ResetResults
    /\ UNCHANGED <<evidence, signals, signArg, signData>>
    /\ UNCHANGED <<api, proverId, thrown>>

\* a stamp without its signals mapping
DropSignals ==
    /\ Building
    /\ ~SignalsMissing(TheStamp)
    /\ stamp' = {[TheStamp EXCEPT !.signals = {}]}
    /\ ResetResults
    /\ UNCHANGED <<evidence, signals, signArg, signData>>
    /\ UNCHANGED <<api, proverId, thrown>>

\* { ...unsigned, signatures: [] }
EmptySignatures ==
    /\ Building
    /\ stamp' = {[TheStamp EXCEPT !.signatures = {<<>>}]}
    /\ ResetResults
    /\ UNCHANGED <<evidence, signals, signArg, signData>>
    /\ UNCHANGED <<api, proverId, thrown>>

\* the caller signs JSON.stringify(unsigned) itself and puts the signature
\* on the stamp; a malformed value is a string that is no signature
AttachSignature(signer, malformed) ==
    /\ stamp # {}
    /\ Quiet
    /\ signArg = {}
    /\ Len(SignaturesOf(TheStamp)) < MaxSignatures
    /\ LET sigValue == IF malformed THEN MalformedSignature
                       ELSE SignMessage(signer.key,
                                        JSONStringify(WithoutSignatures(TheStamp)))
           record == [signer |-> signer.signer, algorithm |-> "secp256k1",
                      value |-> sigValue, timestamp |-> 0]
       IN  stamp' = {[TheStamp EXCEPT !.signatures =
                                         {Append(SignaturesOf(TheStamp), record)}]}
    /\ ResetResults
    /\ UNCHANGED <<evidence, signals, signArg, signData>>
    /\ UNCHANGED <<api, proverId, thrown>>

\* Math.floor(Date.now() / 1000): later than the stamp's last signature
Now == IF Len(SignaturesOf(TheStamp)) = 0 THEN 1
       ELSE SignaturesOf(TheStamp)[Len(SignaturesOf(TheStamp))].timestamp + 1

\* signed = await plugin.sign(stamp, signer)
SignStamp(signer) ==
    /\ stamp # {}
    /\ Quiet
    /\ Now <= MaxClock
    /\ signArg' = stamp
    /\ signData' = {SignedData(TheStamp)}
    /\ stamp' = {sign(TheStamp, signer, Now)}
    /\ ResetResults
    /\ UNCHANGED <<evidence, signals>>
    /\ UNCHANGED <<api, proverId, thrown>>

\* verify, from its entry to the loop over the wrapper signatures
VerifyBegin ==
    /\ stamp # {}
    /\ vpc = "idle"
    /\ IF SignalsMissing(TheStamp)
       THEN vpc' = "threw" /\ vres' = VerifyLocals
       ELSE /\ vpc' = "loop"
            /\ vres' = ChallengeSignatureCheck(TheStamp,
                                               StructureChecks(TheStamp, VerifyLocals))
    /\ vi' = 1
    /\ UNCHANGED <<evidence, signals, stamp, signArg, signData, claim, cvec>>
    /\ UNCHANGED <<api, proverId, thrown>>

\* verify, one wrapper signature
VerifyStampSignature ==
    /\ vpc = "loop"
    /\ vi <= Len(SignaturesOf(TheStamp))
    /\ vres' = StampSignatureCheck(TheStamp, SignaturesOf(TheStamp)[vi], vres)
    /\ vi' = vi + 1
    /\ UNCHANGED <<evidence, signals, stamp, signArg, signData, vpc, claim, cvec>>
    /\ UNCHANGED <<api, proverId, thrown>>

\* verify, from the end of the loop to its return
VerifyEnd ==
    /\ vpc = "loop"
    /\ vi > Len(SignaturesOf(TheStamp))
    /\ IF CoordinateCheckThrows(TheStamp)
       THEN vpc' = "threw" /\ vres' = VerifyLocals
       ELSE /\ vpc' = "done"
            /\ vres' = VerifyReturn(SignalChecks(TheStamp,
                          CoordinateCheck(TheStamp, NoSignaturesCheck(TheStamp, vres))))
    /\ UNCHANGED <<evidence, signals, stamp, signArg, signData, vi, claim, cvec>>
    /\ UNCHANGED <<api, proverId, thrown>>

\* result = await evaluateWitnessChainStamp(stamp, claim)
Evaluate(c) ==
    /\ stamp # {}
    /\ Quiet
    /\ cvec = {}
    /\ claim' = c
    /\ cvec' = {EvaluateWitnessChainStamp(TheStamp, c)}
    /\ UNCHANGED <<evidence, signals, stamp, signArg, signData, vpc, vi, vres>>
    /\ UNCHANGED <<api, proverId, thrown>>

\* create, sign and verify
Next ==
    \/ \E a \in {"0xaa", "0x01"} : TamperChallenger(a)
    \/ TamperClaims
    \/ BuildSignals
    \/ Create
    \/ \E r \in {TheEvidence, GarbageResult} : Embed(r)
    \/ SetPlugin
    \/ \E l \in {UndefinedLocation, NullLocation, BareObjectLocation} : SetLocation(l)
    \/ DropSignals
    \/ EmptySignatures
    \/ \E signer \in AttachSigners : AttachSignature(signer, FALSE)
    \/ AttachSignature(TestSigner("kB", ToLowerCase(AddressOf("kB"))), TRUE)
    \/ \E signer \in Signers : SignStamp(signer)
    \/ VerifyBegin
    \/ VerifyStampSignature
    \/ VerifyEnd

Spec == Init /\ [][Next]_vars

\* create and evaluate
NextEval ==
    \/ BuildSignals
    \/ Create
    \/ \E l \in {UndefinedLocation, NullLocation, StringLocation, BareObjectLocation} :
          SetLocation(l)
    \/ DropSignals
    \/ \E c \in Claims : Evaluate(c)

SpecEval == InitEval /\ [][NextEval]_vars

\* create and verify, with coordinates in and out of range and wrapper
\* signatures that match, mismatch and are malformed
NextRange ==
    \/ BuildSignals
    \/ Create
    \/ Embed(TheEvidence)
    \/ SetPlugin
    \/ DropSignals
    \/ AttachSignature(TestSigner("kB", ToLowerCase(AddressOf("kB"))), FALSE)
    \/ \E signer \in FailingSigners : AttachSignature(signer, FALSE)
    \/ AttachSignature(TestSigner("kB", AddressOf("kB")), TRUE)
    \/ VerifyBegin
    \/ VerifyStampSignature
    \/ VerifyEnd

SpecRange == InitRange /\ [][NextRange]_vars

\* collect and create
NextCollect ==
    \/ Collect
    \/ EmptySignals
    \/ Create

SpecCollect == InitCollect /\ [][NextCollect]_vars

(***************************************************************************)
(* Properties                                                              *)
(***************************************************************************)
\* the credibility vector of the last evaluate call, when it returned scores
Scored == cvec # {} /\ (CHOOSE v \in cvec : TRUE).outcome = "returned"
             /\ (CHOOSE v \in cvec : TRUE).details.error = {}
TheVector == CHOOSE v \in cvec : TRUE

\* the distances between points of the grid
GridDistances == {HaversineDistance(0, 0, lat, 0) : lat \in 0..MaxLatDeg}

\* a number that is defined and lies in [0, 1]
InUnitInterval(a) == IsFinite(a) /\ NumLe(Num(0), a) /\ NumLe(a, Num(1))

\* C1: for the effective radius of an evaluation (taken positive here) the
\* base spatial score does not increase with the distance: every distance of
\* the grid that is at least the evaluation's distance scores at most what the
\* evaluation's distance scores.
C1_SpatialNonIncreasing ==
    Scored =>
        LET d1 == CHOOSE x \in TheVector.details.distanceMeters : TRUE
            radius == CHOOSE x \in TheVector.details.effectiveRadiusMeters : TRUE
        IN  NumGt(radius, Num(0)) =>
                \A d2 \in GridDistances :
                    NumLe(d1, d2) => NumLe(BaseSpatial(d2, radius), BaseSpatial(d1, radius))

\* C2: verify returns a result for every stamp; no call ends in an exception.
C2_VerifyNeverThrows == vpc # "threw"

\* verify has returned a result for the stamp the caller holds
Verified == vpc = "done"

\* the stamp the caller holds is what the last sign call returned
SignedNow == signArg # {} /\ stamp # {}
TheSignArg == CHOOSE x \in signArg : TRUE

\* the signature sign put on the stamp recovers, from the string that was
\* signed, to the identity its signer declares
SignerMatches ==
    LET sig == SignaturesOf(TheStamp)[1]
        rec == VerifyMessage(signData, {sig.value})
    IN  ~rec.threw /\ ToLowerCase(rec.address) = ToLowerCase(sig.signer.value)

\* a challenge result whose signature recovers from its message
Recovers(result) == ~VerifyMessage(result.message, result.signature).threw
RecoveredFrom(result) == VerifyMessage(result.message, result.signature).address

\* a challenge result whose signature recovers to its declared challenger
ChallengerMatches(result) ==
    Recovers(result) /\ ToLowerCase(RecoveredFrom(result)) = ToLowerCase(result.challenger)

\* the stamp carries an embedded challenge result
HasEmbedded(s) == ~SignalsMissing(s) /\ EmbeddedResult(s) # {}
TheEmbedded(s) == CHOOSE x \in EmbeddedResult(s) : TRUE

C4_ChallengerTamperDetected ==
    (/\ Verified /\ HasEmbedded(TheStamp)
     /\ Recovers(TheEmbedded(TheStamp))
     /\ ~ChallengerMatches(TheEmbedded(TheStamp))) =>
        /\ ~vres.signaturesValid
        /\ vres.details.challengeSignatureMismatch =
              {[expected |-> TheEmbedded(TheStamp).challenger,
                recovered |-> RecoveredFrom(TheEmbedded(TheStamp))]}

\* every wrapper signature of the stamp recovers to its declared signer
AllWrappersMatch(s) ==
    \A i \in 1..Len(SignaturesOf(s)) :
        LET sig == SignaturesOf(s)[i]
            rec == VerifyMessage({JSONStringify(WithoutSignatures(s))}, {sig.value})
        IN  ~rec.threw /\ ToLowerCase(rec.address) = ToLowerCase(sig.signer.value)

\* C4 witness: the challenger of a result the test wallet signed was replaced,
\* the stamp carries a wrapper signature that matches, and verify returned.
C4_Witness ==
    /\ Verified /\ HasEmbedded(TheStamp)
    /\ WalletSigned(TheEmbedded(TheStamp))
    /\ TheEmbedded(TheStamp).challenger = "0x01"
    /\ Len(SignaturesOf(TheStamp)) >= 1 /\ AllWrappersMatch(TheStamp)
    /\ ~vres.signaturesValid

\* the prover's claims of the result no longer are the ones its message holds
ClaimsChanged(result) ==
    \E m \in result.message : m[3] # <<"claims", ToString(result.claims)>>

\* C5: when a claimed-location field of an embedded challenge result was
\* changed after signing (message and signature as they were, the challenger
\* still the one the signature recovers to), the result of verify has
\* signaturesValid = false and records a mismatch.
C5_ClaimsTamperDetected ==
    (/\ Verified /\ HasEmbedded(TheStamp)
     /\ ChallengerMatches(TheEmbedded(TheStamp))
     /\ ClaimsChanged(TheEmbedded(TheStamp))) =>
        /\ ~vres.signaturesValid
        /\ vres.details.challengeSignatureMismatch # {}

\* C6: verify of sign(create(signalsFromChallengeResult(e)), k) reports
\* signaturesValid = false when e.signature does not recover to e.challenger:
\* the stamp create returns keeps the message and signature within reach.
C6_BuildKeepsSignedPair ==
    (/\ Verified /\ SignedNow
     /\ TheSignArg = CreateWitnessChainStamp(SignalsFromChallengeResult(TheEvidence))
     /\ ~ChallengerMatches(TheEvidence)) =>
        ~vres.signaturesValid

\* C7: when verify reports signaturesValid = true the stamp carries an
\* embedded challenge result or a wrapper signature, the embedded result (if
\* any) recovers to its challenger and every wrapper signature recovers to its
\* declared signer; a stamp with neither gets signaturesValid = false and
\* details.noSignatures = true.
C7_ValidMeansVerifiedSignature ==
    Verified =>
        /\ vres.signaturesValid =>
              /\ HasEmbedded(TheStamp) \/ Len(SignaturesOf(TheStamp)) >= 1
              /\ HasEmbedded(TheStamp) => ChallengerMatches(TheEmbedded(TheStamp))
              /\ AllWrappersMatch(TheStamp)
        /\ (~HasEmbedded(TheStamp) /\ Len(SignaturesOf(TheStamp)) = 0) =>
              ~vres.signaturesValid /\ vres.details.noSignatures

\* C7 witness: signaturesValid = true for a stamp with an embedded result and
\* two wrapper signatures.
C7_Witness ==
    /\ Verified /\ vres.signaturesValid
    /\ HasEmbedded(TheStamp) /\ Len(SignaturesOf(TheStamp)) = 2

\* C8: every vector evaluate returns has score, spatial and temporal defined
\* and in [0, 1] (the radius and the uncertainty of the model are >= 0).
C8_ScoresInUnitInterval ==
    (cvec # {} /\ TheVector.outcome = "returned") =>
        /\ InUnitInterval(TheVector.score)
        /\ InUnitInterval(TheVector.spatial)
        /\ InUnitInterval(TheVector.temporal)

\* the stamp with its success flag set
WithSucceeded(s, flag) ==
    [s EXCEPT !.signals = {[SignalsOf(s) EXCEPT !.challengeSucceeded = flag]}]

\* the caller's stamp failed its challenge and evaluate scored it
FailedScored == Scored /\ SignalsOf(TheStamp).challengeSucceeded = "false"

\* what evaluate returns for the same stamp with the success flag true
SuccessTwin == EvaluateWitnessChainStamp(WithSucceeded(TheStamp, "true"), claim)

\* C9 as stated: the failed stamp's vector records the penalty 0.3, its score
\* is the successful twin's score minus exactly 0.3, spatial and temporal are
\* the twin's.
C9_PenaltyExact ==
    FailedScored =>
        /\ TheVector.details.challengeFailedPenalty = {Rat(3, 10)}
        /\ TheVector.score = NumSub(SuccessTwin.score, Rat(3, 10))
        /\ TheVector.spatial = SuccessTwin.spatial
        /\ TheVector.temporal = SuccessTwin.temporal

\* C9 amended: when both locations carry coordinates, the failed stamp's
\* vector records the penalty 0.3, its score is max(0, S - 0.3) for the
\* successful twin's score S, spatial and temporal are the twin's, and the
\* twin records no penalty.
C9_PenaltyClamped ==
    FailedScored =>
        /\ TheVector.details.challengeFailedPenalty = {Rat(3, 10)}
        /\ SuccessTwin.details.challengeFailedPenalty = {}
        /\ TheVector.score = MathMax(Num(0), NumSub(SuccessTwin.score, Rat(3, 10)))
        /\ TheVector.spatial = SuccessTwin.spatial
        /\ TheVector.temporal = SuccessTwin.temporal

\* C9 witness: a failed stamp whose successful twin scores above 0 and below
\* 0.3, so that the penalty is cut short at 0.
C9_Witness ==
    /\ FailedScored
    /\ NumGt(SuccessTwin.score, Num(0))
    /\ NumLt(SuccessTwin.score, Rat(3, 10))
    /\ TheVector.score = Num(0)

\* C10: the stamp sign returns carries the signatures of its argument followed
\* by exactly one new record.
C10_SignAppends ==
    SignedNow =>
        LET prior == SignaturesOf(TheSignArg)
            after == SignaturesOf(TheStamp)
        IN  /\ Len(after) = Len(prior) + 1
            /\ SubSeq(after, 1, Len(prior)) = prior

\* the keys of details whose value is only ever true
DetailFlags ==
    {"missingFields", "missingChallengeData", "challengeSignerVerified",
     "noSignatures", "challengeFailed"}

\* the key has been written to the details mapping
Written(details, key) ==
    IF key \in DetailFlags THEN details[key] ELSE details[key] # {}

\* C11: during one verify call that returns, no step removes or overwrites a
\* diagnostic key that is already written: the details mapping only grows, so
\* the record of every failing wrapper signature reaches the returned details.
C11_DetailsOnlyGrow ==
    [][(vpc = "loop" /\ vpc' \in {"loop", "done"}) =>
          \A key \in DOMAIN vres.details :
              Written(vres.details, key) => vres'.details[key] = vres.details[key]]_vars

\* the bundle the caller holds
TheSignals == CHOOSE x \in signals : TRUE

\* collect has returned the bundle the caller holds
CollectReturned == signals # {} /\ "proverId" \in DOMAIN TheSignals.data

\* collect has been called and has returned or thrown
CollectDone ==
    \/ CollectReturned
    \/ thrown \in {"AuthenticationRequired", "ApiError", "ProverNotFound",
                   "NoSuccessfulChallenge"}

\* the endpoint's answer lists the requested prover
HasProver == \E i \in 1..Len(api.provers) : api.provers[i].id = proverId

\* the successful entries of the requested prover's results
SuccessfulEntries ==
    LET results == api.provers[FindProver(api.provers, proverId)].results
    IN  {results[i] : i \in {j \in 1..Len(results) : Succeeded(results[j])}}

\* C12: when the endpoint answers with a list of provers, collect fails with
\* ProverNotFound if no prover has the requested id, fails with
\* NoSuccessfulChallenge if that prover has no successful entry, and otherwise
\* returns a bundle whose evidence is a successful entry of that prover with
\* the greatest start time among the successful entries.
C12_CollectLatestSuccess ==
    (api.auth /\ api.ok /\ CollectDone) =>
        IF ~HasProver THEN thrown = "ProverNotFound"
        ELSE IF SuccessfulEntries = {} THEN thrown = "NoSuccessfulChallenge"
        ELSE /\ CollectReturned
             /\ TheSignals.data.challengeResult \subseteq SuccessfulEntries
             /\ \A e \in TheSignals.data.challengeResult : \A r \in SuccessfulEntries :
                   r.challenge_start_time <= e.challenge_start_time

\* the stamp's location is a point; its longitude and latitude
PointStamp == stamp # {} /\ TheStamp.location.kind = "point"
StampLongitude == TheStamp.location.coordinates[1]
StampLatitude == TheStamp.location.coordinates[2]
LatitudeOutOfRange == StampLatitude < -90 \/ StampLatitude > 90
LongitudeOutOfRange == StampLongitude < -180 \/ StampLongitude > 180

\* C13: in every result verify returns for a stamp whose latitude is outside
\* [-90, 90] or whose longitude is outside [-180, 180], signalsConsistent and
\* valid are false and each out-of-range value is recorded under its own key,
\* whatever signaturesValid and structureValid are.
C13_CoordinateBounds ==
    (Verified /\ PointStamp) =>
        /\ LatitudeOutOfRange =>
              /\ ~vres.signalsConsistent /\ ~vres.valid
              /\ vres.details.invalidLatitude = {StampLatitude}
        /\ LongitudeOutOfRange =>
              /\ ~vres.signalsConsistent /\ ~vres.valid
              /\ vres.details.invalidLongitude = {StampLongitude}

\* C13 witness: both coordinates are out of range, both are recorded, and the
\* signature and structure checks have passed.
C13_Witness ==
    /\ Verified /\ PointStamp
    /\ LatitudeOutOfRange /\ LongitudeOutOfRange
    /\ vres.signaturesValid /\ vres.structureValid
    /\ ~vres.signalsConsistent
    /\ vres.details.invalidLatitude # {} /\ vres.details.invalidLongitude # {}

\* a location evaluate can take coordinates from
PointShaped(loc) == loc.kind = "point"

\* C14: when the stamp's or the claim's location is not point-shaped,
\* evaluate returns (it does not raise) the vector with score, spatial and
\* temporal 0, supportsClaim false, details.error set and no other diagnostic.
C14_MalformedLocationVector ==
    (cvec # {} /\ (~PointShaped(TheStamp.location) \/ ~PointShaped(claim.location))) =>
        /\ TheVector.outcome = "returned"
        /\ TheVector.score = Num(0)
        /\ TheVector.spatial = Num(0)
        /\ TheVector.temporal = Num(0)
        /\ ~TheVector.supportsClaim
        /\ TheVector.details.error # {}
        /\ TheVector.details = [NoEvalDetails EXCEPT !.error = TheVector.details.error]

\* the time window of the stamp the caller holds
StampWindow == CHOOSE x \in TheStamp.temporalFootprint : TRUE

\* C15: the temporal score of every scored evaluation lies in [0, 1]; it is 0
\* when the stamp's and the claim's windows are disjoint or only touch and
\* when the shorter window has no duration; it is 1 when the two windows are
\* equal and have a positive duration.
C15_TemporalBounds ==
    Scored =>
        LET a == StampWindow
            b == claim.time
        IN  /\ InUnitInterval(TheVector.temporal)
            /\ (a.end <= b.start \/ b.end <= a.start) => TheVector.temporal = Num(0)
            /\ (a.end = a.start \/ b.end = b.start) => TheVector.temporal = Num(0)
            /\ (a = b /\ a.end > a.start) => TheVector.temporal = Num(1)

\* C15 witness: the claim's window is the stamp's and the temporal score is 1.
C15_Witness ==
    /\ Scored
    /\ StampWindow = claim.time
    /\ StampWindow.end > StampWindow.start
    /\ TheVector.temporal = Num(1)

\* the bundle holds the embedded challenge result
HasEvidence(sig) == sig.data.challengeResult # {}

\* C16: every create call on a bundle without the embedded challenge result
\* fails with MissingEvidence, returns no stamp and leaves the bundle as it
\* was; every create call on a bundle with the challenge result returns a
\* stamp and throws nothing.
C16_MissingEvidence ==
    [][(signals # {} /\ stamp = {} /\ thrown = "none"
          /\ (stamp' # stamp \/ thrown' # thrown)) =>
          /\ signals' = signals
          /\ IF HasEvidence(TheSignals)
             THEN stamp' # {} /\ thrown' = "none"
             ELSE stamp' = {} /\ thrown' = "MissingEvidence"]_vars

\* C16 witness: create has failed on a bundle without the challenge result.
C16_Witness ==
    /\ signals # {}
    /\ ~HasEvidence(TheSignals)
    /\ thrown = "MissingEvidence"
    /\ stamp = {}

\* C17: in every result verify returns, valid is true exactly when
\* signaturesValid, structureValid and signalsConsistent are all true.
C17_ValidIsConjunction ==
    Verified =>
        (vres.valid <=>
            (vres.signaturesValid /\ vres.structureValid /\ vres.signalsConsistent))

\* C17 witness: a returned result in which signalsConsistent alone is false,
\* so valid is false.
C17_Witness ==
    /\ Verified
    /\ vres.signaturesValid /\ vres.structureValid /\ ~vres.signalsConsistent
    /\ ~vres.valid

\* the stamp the caller holds is the one create returned for its bundle
CreatedFromBundle ==
    /\ signals # {} /\ stamp # {}
    /\ HasEvidence(TheSignals)
    /\ stamp = CreateOutcome(TheSignals).stamp

\* the challenge result of the caller's bundle
BundleEvidence == CHOOSE x \in TheSignals.data.challengeResult : TRUE

\* the least number of whole seconds that hold this many microseconds
SecondsCeiling(micros) ==
    CHOOSE n \in 0..(micros \div 1000000 + 1) :
        /\ n * 1000000 >= micros
        /\ \A m \in 0..(n - 1) : m * 1000000 < micros

\* C18: the stamp create returns for a bundle with evidence has the window
\* start = the evidence's start time in seconds and end = start +
\* max(10, ceil(ping delay / 1000000) + 5), so end - start >= 10 and
\* end > start, and its location is <<prover longitude, prover latitude>>.
C18_WindowAndLocation ==
    CreatedFromBundle =>
        LET e == BundleEvidence
            w == StampWindow
            seconds == SecondsCeiling(e.result.ping_delay) + 5
        IN  /\ w.start = e.challenge_start_time \div 1000
            /\ w.end = w.start + (IF seconds > 10 THEN seconds ELSE 10)
            /\ w.end - w.start >= 10
            /\ w.end > w.start
            /\ TheStamp.location.kind = "point"
            /\ TheStamp.location.coordinates = <<e.claims.longitude, e.claims.latitude>>

\* C18 witness: a stamp created from evidence with a ping delay of more than
\* five seconds, whose window is longer than the ten-second minimum, at a
\* position whose latitude and longitude differ.
C18_Witness ==
    /\ CreatedFromBundle
    /\ BundleEvidence.result.ping_delay > 5000000
    /\ StampWindow.end - StampWindow.start > 10
    /\ BundleEvidence.claims.longitude # BundleEvidence.claims.latitude

\* the corroboration record of the stamp the caller holds
Corroborated == Scored /\ SignalsOf(TheStamp).consolidatedResult # {}
TheRecord == CHOOSE x \in SignalsOf(TheStamp).consolidatedResult : TRUE

\* the named sources present in the record, and those of them that agree
SourcesPresent == {key \in IpSources : TheRecord[key] # "undefined"}
SourcesAgreeing == {key \in SourcesPresent : TheRecord[key] = "true"}

\* the spatial score before the bonuses, from the recorded distance and radius
RecordedBase ==
    BaseSpatial(CHOOSE x \in TheVector.details.distanceMeters : TRUE,
                CHOOSE x \in TheVector.details.effectiveRadiusMeters : TRUE)

\* x raised by bonus and capped at 1
Raised(x, bonus) == MathMin(Num(1), NumAdd(x, bonus))

\* C19: for a stamp with a corroboration record, the counts are the number of
\* named sources present (total) and of those equal to true (agreed), with
\* 0 <= agreed <= total <= 3, recorded when total > 0; spatial is the base
\* score raised by 0.1 * agreed / total when total > 0, then by 0.05 when the
\* know-location flag is true, then by 0.05 when the verified flag is true,
\* each raise capped at 1, so spatial never exceeds 1.
C19_CorroborationBonus ==
    Corroborated =>
        LET total == Cardinality(SourcesPresent)
            agreed == Cardinality(SourcesAgreeing)
            s1 == IF total > 0 THEN Raised(RecordedBase, Rat(agreed, 10 * total))
                  ELSE RecordedBase
            s2 == IF TheRecord.KnowLoc = "true" THEN Raised(s1, Rat(1, 20)) ELSE s1
            s3 == IF TheRecord.verified = "true" THEN Raised(s2, Rat(1, 20)) ELSE s2
        IN  /\ 0 <= agreed /\ agreed <= total /\ total <= 3
            /\ total > 0 => /\ TheVector.details.ipSourcesTotal = {total}
                            /\ TheVector.details.ipSourcesAgreed = {agreed}
            /\ TheVector.spatial = s3
            /\ ~NumGt(TheVector.spatial, Num(1))

\* C19 witness: two of three named sources agree, both flags are true, and
\* spatial is the base score plus 0.1 * 2/3 + 0.05 + 0.05, below the cap.
C19_Witness ==
    /\ Corroborated
    /\ TheVector.details.ipSourcesAgreed = {2}
    /\ TheVector.details.ipSourcesTotal = {3}
    /\ TheRecord.KnowLoc = "true" /\ TheRecord.verified = "true"
    /\ IsFinite(RecordedBase)
    /\ NumLt(TheVector.spatial, Num(1))
    /\ TheVector.spatial = NumAdd(RecordedBase, Rat(1, 6))

\* evaluate has returned a vector (a scored one or an error vector)
Returned == cvec # {} /\ TheVector.outcome = "returned"

\* the penalty of the stamp the caller holds
ThePenalty ==
    IF ~SignalsMissing(TheStamp) /\ SignalsOf(TheStamp).challengeSucceeded = "false"
    THEN Rat(3, 10) ELSE Num(0)

\* C20: in every vector evaluate returns, supportsClaim is true exactly when
\* score > 0.3 and spatial > 0.1 and temporal > 0, and score is
\* 0.65 * spatial + 0.35 * temporal - penalty clamped to [0, 1]; so a stamp
\* whose window does not overlap the claim's (temporal 0) never supports it.
C20_VerdictGate ==
    Returned =>
        LET v == TheVector
            weighted == NumDiv(NumAdd(NumMul(Num(13), v.spatial),
                                      NumMul(Num(7), v.temporal)), Num(20))
        IN  /\ v.supportsClaim <=>
                  (NumGt(v.score, Rat(3, 10)) /\ NumGt(v.spatial, Rat(1, 10))
                   /\ NumGt(v.temporal, Num(0)))
            /\ v.score = MathMax(Num(0), MathMin(Num(1), NumSub(weighted, ThePenalty)))
            /\ v.temporal = Num(0) => ~v.supportsClaim

\* C20 witness: a vector with score above 0.3 and spatial above 0.1 whose
\* windows do not overlap: it does not support the claim.
C20_Witness ==
    /\ Scored
    /\ NumGt(TheVector.score, Rat(3, 10))
    /\ NumGt(TheVector.spatial, Rat(1, 10))
    /\ TheVector.temporal = Num(0)
    /\ ~TheVector.supportsClaim

\* C21: verify on a stamp that fails structure (its plugin name), signatures
\* (a wrapper signature that does not recover to its signer) and signal
\* consistency (a coordinate out of range) at once reports all three flags
\* false with a diagnostic of each category; and for a stamp whose plugin name
\* feeds the structure check only (no wrapper signature covers it), changing
\* the plugin name changes neither signaturesValid nor signalsConsistent.
C21_NoShortCircuit ==
    LET badStructure == TheStamp.plugin # PLUGIN_NAME
        badSignatures == Len(SignaturesOf(TheStamp)) >= 1 /\ ~AllWrappersMatch(TheStamp)
        badSignals == PointStamp /\ (LatitudeOutOfRange \/ LongitudeOutOfRange)
        otherPlugin == IF TheStamp.plugin = PLUGIN_NAME THEN "wrong-plugin"
                       ELSE PLUGIN_NAME
        other == VerifyWitnessChainStamp([TheStamp EXCEPT !.plugin = otherPlugin])
    IN  /\ (vpc \in {"done", "threw"} /\ badStructure /\ badSignatures /\ badSignals) =>
              /\ vpc = "done"
              /\ ~vres.structureValid /\ ~vres.signaturesValid /\ ~vres.signalsConsistent
              /\ vres.details.pluginMismatch # {}
              /\ vres.details.stampSignatureMismatch # {}
                    \/ vres.details.stampSignatureError # {}
              /\ vres.details.invalidLatitude # {} \/ vres.details.invalidLongitude # {}
        /\ (Verified /\ Len(SignaturesOf(TheStamp)) = 0) =>
              /\ ~other.threw
              /\ other.result.signaturesValid = vres.signaturesValid
              /\ other.result.signalsConsistent = vres.signalsConsistent
              /\ other.result.structureValid # vres.structureValid
                    \/ ~vres.structureValid

\* what verify does with the stamp that differs from the caller's in the
\* success flag only
FlagTwin ==
    VerifyWitnessChainStamp(
        WithSucceeded(TheStamp,
            IF SignalsOf(TheStamp).challengeSucceeded = "false" THEN "true"
            ELSE "false"))

\* C22 as stated: for two stamps that differ only in the success flag, verify
\* returns the same valid, signaturesValid, structureValid and
\* signalsConsistent, and the details differ only in challengeFailed, which is
\* set for the stamp with success = false.
C22_FlagOnlyWarns ==
    LET failed == SignalsOf(TheStamp).challengeSucceeded = "false"
    IN  (Verified /\ SignalsOf(TheStamp).challengeSucceeded \in {"true", "false"}) =>
            /\ ~FlagTwin.threw
            /\ FlagTwin.result.valid = vres.valid
            /\ FlagTwin.result.signaturesValid = vres.signaturesValid
            /\ FlagTwin.result.structureValid = vres.structureValid
            /\ FlagTwin.result.signalsConsistent = vres.signalsConsistent
            /\ vres.details.challengeFailed <=> failed
            /\ FlagTwin.result.details.challengeFailed <=> ~failed
            /\ [FlagTwin.result.details EXCEPT !.challengeFailed = FALSE]
                  = [vres.details EXCEPT !.challengeFailed = FALSE]

\* C22 amended: for two stamps that differ only in the success flag, verify
\* returns on both or on neither, structureValid and signalsConsistent are
\* equal, and challengeFailed is set exactly for the stamp with success =
\* false; when the stamps carry no wrapper signature, signaturesValid, valid
\* and every other key of details are equal as well.
C22_FlagOnlyWarnsUnsigned ==
    LET failed == SignalsOf(TheStamp).challengeSucceeded = "false"
    IN  (Verified /\ SignalsOf(TheStamp).challengeSucceeded \in {"true", "false"}) =>
            /\ ~FlagTwin.threw
            /\ FlagTwin.result.structureValid = vres.structureValid
            /\ FlagTwin.result.signalsConsistent = vres.signalsConsistent
            /\ vres.details.challengeFailed <=> failed
            /\ FlagTwin.result.details.challengeFailed <=> ~failed
            /\ Len(SignaturesOf(TheStamp)) = 0 =>
                  /\ FlagTwin.result.valid = vres.valid
                  /\ FlagTwin.result.signaturesValid = vres.signaturesValid
                  /\ [FlagTwin.result.details EXCEPT !.challengeFailed = FALSE]
                        = [vres.details EXCEPT !.challengeFailed = FALSE]

\* verify returned valid = true with the warning for a stamp without wrapper
\* signatures whose challenge failed, and the stamp with the flag true is
\* valid without the warning
C22_Witness ==
    /\ Verified /\ SignalsOf(TheStamp).challengeSucceeded = "false"
    /\ Len(SignaturesOf(TheStamp)) = 0
    /\ vres.valid /\ vres.details.challengeFailed
    /\ FlagTwin.result.valid /\ ~FlagTwin.result.details.challengeFailed

====
